---- MODULE Spec2Model ----
(***************************************************************************)
(* A model of the capacitor-printer plugin: the Android implementation     *)
(* (Printer.java), the iOS implementation (Printer.swift, kept in          *)
(* src/src/definitions.ts) and the web implementation (PrinterWeb, kept in *)
(* src/unnamed/part_001).                                                  *)
(*                                                                         *)
(* Text the code inspects (paths, MIME types, base64 payloads) is a        *)
(* sequence of one-character strings, so that startsWith, lastIndexOf,     *)
(* substring and toLowerCase are computed as the code computes them.       *)
(***************************************************************************)
EXTENDS Integers, Sequences, FiniteSets, TLC

(***************************************************************************)
(* Bounds of the model.                                                    *)
(***************************************************************************)
\* longest byte sequence a caller encodes into a base64 payload
MaxLen == 3
\* how many times the print subsystem asks one adapter to lay out
MaxLayouts == 2
\* how many times the print subsystem asks one adapter to write
MaxWrites == 2
\* how many load events the browser delivers to one hidden iframe
MaxLoads == 2

\* the byte values payloads and files are made of
Bytes == {0, 77, 255}

ByteSeqs == UNION {[1..n -> Bytes] : n \in 0..MaxLen}

Null == <<"n", "u", "l", "l", "!">>

(***************************************************************************)
(* Characters and strings.                                                 *)
(***************************************************************************)
UpperChars ==
    <<"A","B","C","D","E","F","G","H","I","J","K","L","M",
      "N","O","P","Q","R","S","T","U","V","W","X","Y","Z">>

LowerChars ==
    <<"a","b","c","d","e","f","g","h","i","j","k","l","m",
      "n","o","p","q","r","s","t","u","v","w","x","y","z">>

DigitChars == <<"0","1","2","3","4","5","6","7","8","9">>

\* Character.toLowerCase on one character (root-locale mapping)
LowerChar(c) ==
    IF \E i \in 1..26 : UpperChars[i] = c
    THEN LowerChars[CHOOSE i \in 1..26 : UpperChars[i] = c]
    ELSE c

\* String.toLowerCase
ToLowerCase(s) == [i \in 1..Len(s) |-> LowerChar(s[i])]

\* String.startsWith
StartsWith(s, p) == Len(s) >= Len(p) /\ SubSeq(s, 1, Len(p)) = p

\* String.lastIndexOf(c), 0-based as in Java, -1 when c does not occur
LastIndexOf(s, c) ==
    IF \E i \in 1..Len(s) : s[i] = c
    THEN (CHOOSE i \in 1..Len(s) : s[i] = c /\ \A j \in (i+1)..Len(s) : s[j] # c) - 1
    ELSE -1

\* String.substring(from), from 0-based
Substring(s, from) == SubSeq(s, from + 1, Len(s))

\* the words the code compares text with
W_image == <<"i","m","a","g","e">>
W_pdf == <<"p","d","f">>
W_jpg == <<"j","p","g">>
W_jpeg == <<"j","p","e","g">>
W_png == <<"p","n","g">>
W_gif == <<"g","i","f">>
W_tmp == <<"t","m","p">>
W_heic == <<"h","e","i","c">>
W_heif == <<"h","e","i","f">>
W_application == <<"a","p","p","l","i","c","a","t","i","o","n">>
W_octet_stream == <<"o","c","t","e","t","-","s","t","r","e","a","m">>
W_text == <<"t","e","x","t">>
W_plain == <<"p","l","a","i","n">>

Mime(type, subtype) == type \o <<"/">> \o subtype

M_pdf == Mime(W_application, W_pdf)
M_octet == Mime(W_application, W_octet_stream)
M_jpeg == Mime(W_image, W_jpeg)
M_jpg == Mime(W_image, W_jpg)
M_png == Mime(W_image, W_png)
M_gif == Mime(W_image, W_gif)
M_heic == Mime(W_image, W_heic)
M_heif == Mime(W_image, W_heif)
M_plain == Mime(W_text, W_plain)
\* the same types as a caller may spell them in upper case
M_PDF_upper == Mime(<<"A","P","P","L","I","C","A","T","I","O","N">>, <<"P","D","F">>)
M_PNG_upper == Mime(<<"I","M","A","G","E">>, <<"P","N","G">>)

\* "image/"
ImagePrefix == W_image \o <<"/">>

(***************************************************************************)
(* Base64.                                                                 *)
(***************************************************************************)
B64Alphabet == UpperChars \o LowerChars \o DigitChars \o <<"+", "/">>

B64Pad == "="

\* RFC 4648 encoding of a byte sequence: what a caller passes as `data`
RECURSIVE Base64Encode(_)
Base64Encode(b) ==
    IF Len(b) = 0 THEN <<>>
    ELSE IF Len(b) = 1 THEN
        <<B64Alphabet[(b[1] \div 4) + 1],
          B64Alphabet[((b[1] % 4) * 16) + 1],
          B64Pad, B64Pad>>
    ELSE IF Len(b) = 2 THEN
        <<B64Alphabet[(b[1] \div 4) + 1],
          B64Alphabet[((b[1] % 4) * 16 + (b[2] \div 16)) + 1],
          B64Alphabet[((b[2] % 16) * 4) + 1],
          B64Pad>>
    ELSE
        <<B64Alphabet[(b[1] \div 4) + 1],
          B64Alphabet[((b[1] % 4) * 16 + (b[2] \div 16)) + 1],
          B64Alphabet[((b[2] % 16) * 4 + (b[3] \div 64)) + 1],
          B64Alphabet[(b[3] % 64) + 1]>>
        \o Base64Encode(SubSeq(b, 4, Len(b)))

\* the decoder's table: the position in the alphabet, -2 for '=', -1 (skip)
\* for every other character
B64Value(c) ==
    IF \E i \in 1..64 : B64Alphabet[i] = c
    THEN (CHOOSE i \in 1..64 : B64Alphabet[i] = c) - 1
    ELSE IF c = B64Pad THEN -2 ELSE -1

\* what a decoder gives for a payload it rejects: no byte sequence
BadBase64 == <<-1>>

\* android.util.Base64.decode(data, DEFAULT): the decoder's state machine.
\* st 0..3: characters of the current quad read; 4: one '=' read where two
\* are needed; 5: padding complete; the result is BadBase64 on an error.
RECURSIVE B64Step(_, _, _, _, _)
B64Step(s, i, st, value, out) ==
    IF i > Len(s) THEN
        CASE st = 0 -> out
          [] st = 1 -> BadBase64
          [] st = 2 -> Append(out, (value \div 16) % 256)
          [] st = 3 -> out \o <<(value \div 1024) % 256, (value \div 4) % 256>>
          [] st = 4 -> BadBase64
          [] OTHER -> out
    ELSE LET d == B64Value(s[i]) IN
        IF d = -1 THEN B64Step(s, i + 1, st, value, out)
        ELSE CASE st = 0 ->
                    IF d >= 0 THEN B64Step(s, i + 1, 1, d, out) ELSE BadBase64
               [] st = 1 ->
                    IF d >= 0 THEN B64Step(s, i + 1, 2, value * 64 + d, out)
                    ELSE BadBase64
               [] st = 2 ->
                    IF d >= 0 THEN B64Step(s, i + 1, 3, value * 64 + d, out)
                    ELSE B64Step(s, i + 1, 4, value,
                                 Append(out, (value \div 16) % 256))
               [] st = 3 ->
                    IF d >= 0
                    THEN LET v == value * 64 + d IN
                         B64Step(s, i + 1, 0, 0,
                                 out \o <<(v \div 65536) % 256,
                                          (v \div 256) % 256, v % 256>>)
                    ELSE B64Step(s, i + 1, 5, value,
                                 out \o <<(value \div 1024) % 256,
                                          (value \div 4) % 256>>)
               [] st = 4 ->
                    IF d = -2 THEN B64Step(s, i + 1, 5, value, out)
                    ELSE BadBase64
               [] OTHER -> BadBase64

Base64Decode(data) == B64Step(data, 1, 0, 0, <<>>)

\* payloads that are not base64: a character outside the alphabet, a lone
\* character, a quad with one '=' where two are needed
MalformedPayloads ==
    { <<"T", "!", "Q", "=", "=">>, <<"T">>, <<"T", "Q", "=">> }

\* the payloads a caller passes: the encodings of the byte sequences, and the
\* malformed ones
Payloads == {Base64Encode(b) : b \in ByteSeqs} \cup MalformedPayloads

(***************************************************************************)
(* The host environment: directories, files, the content resolver.         *)
(***************************************************************************)
Path(dir, name) == dir \o <<"/">> \o name

\* context.getCacheDir() and context.getFilesDir(): two different directories
CacheDir == <<"/", "c">>
FilesDir == <<"/", "f">>
\* a directory outside the app whose name holds a dot, and one without
ExtDir == <<"/", "e", ".", "d">>
PlainDir == <<"/", "x">>

\* File.getName(): the text after the last separator
FileName(path) == Substring(path, LastIndexOf(path, "/") + 1)

\* the prefix File.createTempFile is given, and the random parts it may pick
TempPrefix == <<"print_temp">>
TempIds == {"0", "1"}

\* byte[] buf = new byte[1024]
BufSize == 1024

\* the first bytes of a PDF file: "%PDF"
PdfHeader == <<37, 80, 68, 70>>

\* a PDF one byte longer than the adapters' buffer, behind a content:// URI
LongPdf == [i \in 1..(BufSize + 1) |-> IF i <= Len(PdfHeader) THEN PdfHeader[i] ELSE i % 256]

\* the files that exist when the plugin is constructed
InitFiles ==
    { <<Path(ExtDir, <<"a", ".", "p", "d", "f">>), <<77, 0>>>>,
      <<Path(FilesDir, <<"a", ".", "p", "d", "f">>), <<255>>>>,
      <<Path(ExtDir, <<"b", ".", "P", "D", "F">>), <<77>>>>,
      <<Path(ExtDir, <<"c", ".", "j", "p", "g">>), <<255, 0>>>>,
      <<Path(ExtDir, <<"c", ".", "J", "p", "e", "g">>), <<255, 77>>>>,
      <<Path(ExtDir, <<"d", ".", "P", "n", "g">>), <<0, 77>>>>,
      <<Path(ExtDir, <<"e", ".", "G", "I", "F">>), <<0, 0>>>>,
      <<Path(ExtDir, <<"f", ".", "t", "x", "t">>), <<77, 77>>>>,
      <<Path(ExtDir, <<"p", "d", "f">>), <<0>>>>,
      <<Path(PlainDir, <<"p", "n", "g">>), <<0, 255>>>>,
      <<Path(FilesDir, <<"g", ".", "p", "d", "f">>), <<>>>>,
      <<Path(FilesDir, <<"k", ".", "p", "d", "f">>), PdfHeader>>,
      <<Path(FilesDir, TempPrefix \o <<"0", ".", "p", "d", "f">>), <<255, 255>>>> }

InitFS ==
    [p \in {e[1] : e \in InitFiles} |-> (CHOOSE e \in InitFiles : e[1] = p)[2]]

\* the direct paths a caller passes: the files above and two that do not exist
FilePaths ==
    DOMAIN InitFS \cup
    { Path(ExtDir, <<"m", ".", "p", "d", "f">>),
      Path(PlainDir, <<"m">>) }

\* what the content resolver knows: the documents behind content:// URIs,
\* each with the type its provider reports (Null when it reports none)
ContentDocs ==
    { [path |-> <<"/", "d", "/", "1">>, type |-> M_pdf, data |-> <<77>>],
      [path |-> <<"/", "d", "/", "2", ".", "p", "n", "g">>, type |-> Null,
       data |-> <<255>>],
      [path |-> <<"/", "d", "/", "3">>, type |-> M_png, data |-> <<255, 0>>],
      [path |-> <<"/", "d", "/", "4">>, type |-> Null, data |-> <<0, 77>>],
      [path |-> <<"/", "d", "/", "5">>, type |-> M_pdf, data |-> LongPdf] }

ContentPaths ==
    {d.path : d \in ContentDocs} \cup {<<"/", "a", "b", "s", "e", "n", "t">>}

\* Uri.parse(path): the scheme and the path of what the caller passed
Uris ==
    [scheme : {"file", "none"}, path : FilePaths] \cup
    [scheme : {"content"}, path : ContentPaths]

\* DocumentFile.fromSingleUri(context, uri).exists()
ContentExists(uri) == \E d \in ContentDocs : d.path = uri.path

ContentDoc(uri) == CHOOSE d \in ContentDocs : d.path = uri.path

\* DocumentFile.getType()
ContentType(uri) == ContentDoc(uri).type

\* the MIME types a caller declares
Mimes == {M_pdf, M_octet, M_jpeg, M_png, M_gif, M_plain, M_PDF_upper, M_PNG_upper}

JobNames == {"Job"}

(***************************************************************************)
(* State.                                                                  *)
(***************************************************************************)
VARIABLES
    platform,       \* "android", "ios" or "web"
    printManager,   \* Android: getSystemService(PRINT_SERVICE) is not null
    iosAvail,       \* iOS: UIPrintInteractionController.isPrintingAvailable
    iosVC,          \* iOS: a presenting view controller was passed
    fs,             \* the files that exist: path -> bytes
    req,            \* the request the caller made
    outcome,        \* how the caller's promise settled
    branch,         \* the dispatch branch the request took
    mime,           \* the MIME type the handler classified the request by
    jobs,           \* the print-job registry: what PrintManager.print received
    ui,             \* the print UIs presented, in order
    temps,          \* the temporary files and object URLs the request created
    wv,             \* Android printHtml: the off-screen WebView
    layouts,        \* the layout requests the adapters answered, in order
    writes,         \* the write requests the adapters answered, in order
    web             \* the browser: object URLs, the hidden iframe, its timers

vars ==
    <<platform, printManager, iosAvail, iosVC, fs, req, outcome, branch, mime,
      jobs, ui, temps, wv, layouts, writes, web>>

envVars == <<platform, printManager, iosAvail, iosVC>>

NoReq == [op |-> "none"]
Pending == [status |-> "Pending", reason |-> "none"]
Unsettled == [status |-> "None", reason |-> "none"]
Success == [status |-> "Success", reason |-> "none"]
Failure(reason) == [status |-> "Failure", reason |-> reason]

\* the value a handler returns with when it throws nothing
NoThrow == "none"

NoWebView == [state |-> "none", finished |-> 0, failed |-> FALSE]

\* document.title of the page before any request
PageTitle == "Page"

\* options without a name (undefined or "" are both falsy in the name test)
NoName == ""

NoWeb ==
    [urls |-> {}, iframe |-> "none", loads |-> 0, t1 |-> 0, t2 |-> 0,
     promise |-> "none", uncaught |-> 0, errored |-> FALSE, title |-> PageTitle]

Init ==
    /\ platform \in {"android", "ios", "web"}
    /\ printManager \in BOOLEAN
    /\ iosAvail \in BOOLEAN
    /\ iosVC \in BOOLEAN
    /\ platform # "android" => printManager
    /\ platform # "ios" => iosAvail /\ iosVC
    /\ fs = InitFS
    /\ req = NoReq
    /\ outcome = Unsettled
    /\ branch = "none"
    /\ mime = Null
    /\ jobs = <<>>
    /\ ui = <<>>
    /\ temps = {}
    /\ wv = NoWebView
    /\ layouts = <<>>
    /\ writes = <<>>
    /\ web = NoWeb

(***************************************************************************)
(* The completion bridge (PrinterPlugin): the promise resolves when the    *)
(* implementation's method returns and rejects with what it throws.        *)
(***************************************************************************)
Bridge(thrown) == IF thrown = NoThrow THEN Success ELSE Failure(thrown)

(***************************************************************************)
(* Android: Printer.java.                                                  *)
(*                                                                         *)
(* A helper that may throw is an operator whose value is an effect: what   *)
(* it throws (NoThrow when it returns), the branch taken, the jobs it      *)
(* registers, the print UIs it presents and the files it creates.          *)
(***************************************************************************)
Effect(thrown, br, newJobs, newUi, newFiles) ==
    [thrown |-> thrown, branch |-> br, jobs |-> newJobs, ui |-> newUi,
     files |-> newFiles, mime |-> Null]

\* the effect e of a handler that classified the request by MIME type m
WithMime(e, m) == [e EXCEPT !.mime = m]

Throw(message, br) == Effect(message, br, <<>>, <<>>, {})

Job(name, kind, src) == [name |-> name, kind |-> kind, src |-> src]

\* a classifier that knows only image/jpeg as an image type
IsImageMime_JpegOnly(mimeType) == mimeType = M_jpeg

\* mimeType.startsWith("image/")
IsImageMime(mimeType) == StartsWith(mimeType, ImagePrefix)

\* Printer.getExtensionFromMimeType
getExtensionFromMimeType(mimeType) ==
    LET m == ToLowerCase(mimeType) IN
    CASE m = M_pdf -> <<".">> \o W_pdf
      [] m = M_jpeg \/ m = M_jpg -> <<".">> \o W_jpg
      [] m = M_png -> <<".">> \o W_png
      [] m = M_gif -> <<".">> \o W_gif
      [] OTHER -> <<".">> \o W_tmp

\* the lookup without toLowerCase(): the extension compared as written
getMimeTypeFromPath_CaseSensitive(path) ==
    LET extension == Substring(path, LastIndexOf(path, ".") + 1) IN
    CASE extension = W_pdf -> M_pdf
      [] extension = W_jpg \/ extension = W_jpeg -> M_jpeg
      [] extension = W_png -> M_png
      [] extension = W_gif -> M_gif
      [] OTHER -> M_octet

\* Printer.getMimeTypeFromPath
getMimeTypeFromPath(path) ==
    LET extension == ToLowerCase(Substring(path, LastIndexOf(path, ".") + 1)) IN
    CASE extension = W_pdf -> M_pdf
      [] extension = W_jpg \/ extension = W_jpeg -> M_jpeg
      [] extension = W_png -> M_png
      [] extension = W_gif -> M_gif
      [] OTHER -> M_octet

\* Printer.printImage: PrintHelper.printBitmap hands the bitmap to the
\* PrintManager, and fails on a null PrintManager
printImage(name) ==
    IF printManager
    THEN Effect(NoThrow, "Image", <<Job(name, "Bitmap", <<>>)>>, <<"printBitmap">>, {})
    ELSE Throw("NullPointerException", "Image")

\* Printer.printImageFromUri; img is what opening and decoding the stream gives
printImageFromUri(uri, name, img) ==
    CASE img = "ioerror" -> Throw("Failed to read image file", "Image")
      [] img = "null" -> Throw("Failed to decode image", "Image")
      [] OTHER -> printImage(name)

\* Printer.printDocument
printDocument(file, name) ==
    IF ~printManager
    THEN Throw("Print service not available", "Document")
    ELSE Effect(NoThrow, "Document", <<Job(name, "Pdf", file)>>,
                <<"PrintManager.print">>, {})

\* Printer.printDocumentFromUri
printDocumentFromUri(uri, name) ==
    IF ~printManager
    THEN Throw("Print service not available", "Document")
    ELSE Effect(NoThrow, "Document", <<Job(name, "Uri", uri.path)>>,
                <<"PrintManager.print">>, {})

\* Printer.createWebPrintJob: returns silently on a null PrintManager
createWebPrintJob(name, br) ==
    IF ~printManager
    THEN Effect(NoThrow, br, <<>>, <<>>, {})
    ELSE Effect(NoThrow, br, <<Job(name, "Web", <<>>)>>, <<"PrintManager.print">>, {})

\* File.createTempFile("print_temp", extension, context.getCacheDir())
TempFile(id, extension) == Path(CacheDir, TempPrefix \o <<id>> \o extension)

\* Printer.saveTempFile: the new file and the bytes written to it
saveTempFile(data, mimeType, id) ==
    <<TempFile(id, getExtensionFromMimeType(mimeType)), data>>

\* printBase64 with the switch of the iOS implementation: a type that is
\* neither an image type nor application/pdf is rejected
printBase64_Strict(data, mimeType, name, img, id) ==
    LET decodedData == Base64Decode(data) IN
    IF decodedData = BadBase64 THEN Throw("bad base-64", "none")
    ELSE IF IsImageMime(mimeType) THEN
        IF img # "bitmap"
        THEN WithMime(Throw("Failed to decode image from base64 data", "Image"),
                      mimeType)
        ELSE WithMime(printImage(name), mimeType)
    ELSE IF ToLowerCase(mimeType) # M_pdf
    THEN WithMime(Throw("Unsupported MIME type", "none"), mimeType)
    ELSE LET tempFile == saveTempFile(decodedData, mimeType, id)
             e == printDocument(tempFile[1], name)
         IN  WithMime([e EXCEPT !.files = {tempFile}], mimeType)

\* Printer.printBase64; img is what BitmapFactory makes of the bytes, id the
\* random part of the temporary file's name
printBase64(data, mimeType, name, img, id) ==
    LET decodedData == Base64Decode(data) IN
    IF decodedData = BadBase64 THEN Throw("bad base-64", "none")
    ELSE IF IsImageMime(mimeType) THEN
        IF img # "bitmap"
        THEN WithMime(Throw("Failed to decode image from base64 data", "Image"),
                      mimeType)
        ELSE WithMime(printImage(name), mimeType)
    ELSE LET tempFile == saveTempFile(decodedData, mimeType, id)
             e == printDocument(tempFile[1], name)
         IN  WithMime([e EXCEPT !.files = {tempFile}], mimeType)

\* the effective MIME type of a printFile request: the declared type, or
\* what the two branches of printFile put in its place
EffectiveMime(uri, mimeType) ==
    IF mimeType # Null THEN mimeType
    ELSE IF uri.scheme = "content" THEN ContentType(uri)
    ELSE getMimeTypeFromPath(uri.path)

\* Printer.printFile
printFile(uri, mimeType, name, img) ==
    IF uri.scheme = "content" THEN
        IF ~ContentExists(uri) THEN Throw("File not found", "none")
        ELSE LET m == EffectiveMime(uri, mimeType) IN
             IF m # Null /\ IsImageMime(m)
             THEN WithMime(printImageFromUri(uri, name, img), m)
             ELSE WithMime(printDocumentFromUri(uri, name), m)
    ELSE
        IF uri.path \notin DOMAIN fs THEN Throw("File not found", "none")
        ELSE LET m == EffectiveMime(uri, mimeType) IN
             IF m # Null /\ IsImageMime(m) THEN
                 IF img # "bitmap"
                 THEN WithMime(Throw("Failed to decode image from file", "Image"), m)
                 ELSE WithMime(printImage(name), m)
             ELSE WithMime(printDocument(uri.path, name), m)

\* printPdf that does not look whether the file is there
printPdf_Unchecked(uri, name) ==
    IF uri.scheme = "content" THEN printDocumentFromUri(uri, name)
    ELSE printDocument(uri.path, name)

\* Printer.printPdf
printPdf(uri, name) ==
    IF uri.scheme = "content" THEN printDocumentFromUri(uri, name)
    ELSE IF uri.path \notin DOMAIN fs THEN Throw("File not found", "none")
    ELSE printDocument(uri.path, name)

\* Printer.printWebView
printWebView(hasWebView, name) ==
    IF ~hasWebView THEN Throw("WebView not available", "none")
    ELSE createWebPrintJob(name, "LiveSurface")

\* the files of fs and those an effect creates
WithFiles(files) ==
    [p \in DOMAIN fs \cup {f[1] : f \in files} |->
        IF \E f \in files : f[1] = p
        THEN (CHOOSE f \in files : f[1] = p)[2]
        ELSE fs[p]]

\* a handler ran to its end with effect e: the registry, the UI and the file
\* system change, and the bridge settles the caller's promise
Handled(request, e) ==
    /\ req' = request
    /\ outcome' = Bridge(e.thrown)
    /\ branch' = e.branch
    /\ mime' = e.mime
    /\ jobs' = jobs \o e.jobs
    /\ ui' = ui \o e.ui
    /\ fs' = WithFiles(e.files)
    /\ temps' = temps \cup {f[1] : f \in e.files}

ImageResults == {"bitmap", "null", "ioerror"}

APrintBase64 ==
    /\ platform = "android" /\ req = NoReq
    /\ \E data \in Payloads, mimeType \in Mimes, name \in JobNames,
          img \in ImageResults, id \in TempIds :
        /\ TempFile(id, getExtensionFromMimeType(mimeType)) \notin DOMAIN fs
        /\ Handled([op |-> "printBase64", data |-> data, mimeType |-> mimeType,
                    name |-> name],
                   printBase64(data, mimeType, name, img, id))
    /\ UNCHANGED <<envVars, wv, layouts, writes, web>>

APrintFile ==
    /\ platform = "android" /\ req = NoReq
    /\ \E uri \in Uris, mimeType \in Mimes \cup {Null}, name \in JobNames,
          img \in ImageResults :
        Handled([op |-> "printFile", uri |-> uri, mimeType |-> mimeType,
                 name |-> name],
                printFile(uri, mimeType, name, img))
    /\ UNCHANGED <<envVars, wv, layouts, writes, web>>

APrintPdf ==
    /\ platform = "android" /\ req = NoReq
    /\ \E uri \in Uris, name \in JobNames :
        Handled([op |-> "printPdf", uri |-> uri, name |-> name], printPdf(uri, name))
    /\ UNCHANGED <<envVars, wv, layouts, writes, web>>

APrintWebView ==
    /\ platform = "android" /\ req = NoReq
    /\ \E hasWebView \in BOOLEAN, name \in JobNames :
        Handled([op |-> "printWebView", hasWebView |-> hasWebView, name |-> name],
                printWebView(hasWebView, name))
    /\ UNCHANGED <<envVars, wv, layouts, writes, web>>

\* printHtml that does not wait for the page: the job is made at once
printHtml_Eager(name) == createWebPrintJob(name, "Markup")

\* Printer.printHtml up to its return: a WebView is made, its client set and
\* the load started; nothing is registered
printHtml(name) == Effect(NoThrow, "Markup", <<>>, <<>>, {})

\* Printer.printHtml: the WebView starts loading and the method returns
APrintHtml ==
    /\ platform = "android" /\ req = NoReq
    /\ \E name \in JobNames :
        Handled([op |-> "printHtml", name |-> name], printHtml(name))
    /\ wv' = [state |-> "loading", finished |-> 0, failed |-> FALSE]
    /\ UNCHANGED <<envVars, layouts, writes, web>>

\* WebViewClient.onReceivedError, which printHtml's client does not override:
\* the markup failed to render
AOnReceivedError ==
    /\ wv.state = "loading" /\ ~wv.failed /\ wv.finished = 0
    /\ wv' = [wv EXCEPT !.failed = TRUE]
    /\ UNCHANGED <<envVars, fs, req, outcome, branch, mime, jobs, ui, temps, layouts, writes, web>>

\* WebViewClient.onPageFinished of printHtml's client
AOnPageFinished ==
    /\ wv.state = "loading" /\ wv.finished < MaxLoads
    /\ LET e == createWebPrintJob(req.name, "Markup") IN
        /\ jobs' = jobs \o e.jobs
        /\ ui' = ui \o e.ui
    /\ wv' = [wv EXCEPT !.finished = @ + 1]
    /\ UNCHANGED <<envVars, fs, req, outcome, branch, mime, temps, layouts, writes, web>>

(***************************************************************************)
(* The document-provider adapters.                                         *)
(*                                                                         *)
(* The print subsystem asks an adapter to lay out, and after a finished    *)
(* layout to write. Each request carries a cancellation signal, and the    *)
(* streams an adapter opens may fail.                                      *)
(***************************************************************************)
\* what opening the source gives when the file or document is not there
NoStream == <<-1>>

\* onLayout of both adapters: the signal is read once; info is the name the
\* PrintDocumentInfo is built with
onLayout(cancelled, info) ==
    IF cancelled
    THEN [result |-> "onLayoutCancelled", info |-> Null]
    ELSE [result |-> "onLayoutFinished", info |-> info]

LayoutsOf(j) == Cardinality({i \in 1..Len(layouts) : layouts[i].job = j})

\* the print subsystem asks for content only after a layout has finished
LaidOut(j) ==
    \E i \in 1..Len(layouts) :
        layouts[i].job = j /\ layouts[i].result = "onLayoutFinished"

\* PdfDocumentAdapter.onLayout
PdfOnLayout(j) ==
    /\ j \in 1..Len(jobs) /\ jobs[j].kind = "Pdf"
    /\ LayoutsOf(j) < MaxLayouts
    /\ \E cancelled \in BOOLEAN :
        layouts' = Append(layouts,
            [job |-> j, cancelled |-> cancelled] @@
            onLayout(cancelled, FileName(jobs[j].src)))
    /\ UNCHANGED <<envVars, fs, req, outcome, branch, mime, jobs, ui, temps, wv,
                   writes, web>>

\* UriDocumentAdapter.onLayout: the name is the document's, "Document" when
\* the resolver has none
UriOnLayout(j) ==
    /\ j \in 1..Len(jobs) /\ jobs[j].kind = "Uri"
    /\ LayoutsOf(j) < MaxLayouts
    /\ \E cancelled \in BOOLEAN :
        LET uri == [scheme |-> "content", path |-> jobs[j].src] IN
        layouts' = Append(layouts,
            [job |-> j, cancelled |-> cancelled] @@
            onLayout(cancelled,
                     IF ContentExists(uri) THEN FileName(uri.path)
                     ELSE <<"Document">>))
    /\ UNCHANGED <<envVars, fs, req, outcome, branch, mime, jobs, ui, temps, wv,
                   writes, web>>

\* a copy loop that reads once: what fits the buffer is copied, the rest is not
CopyLoop_OneRead(input, output) ==
    IF Len(input) > 0
    THEN Append(output, SubSeq(input, 1, IF Len(input) < BufSize THEN Len(input) ELSE BufSize))
    ELSE output

\* the copy loop of onWrite: read at most BufSize bytes, write them, until a
\* read returns nothing; output is the sequence of the writes made
RECURSIVE CopyLoop(_, _)
CopyLoop(input, output) ==
    LET bytesRead == IF Len(input) < BufSize THEN Len(input) ELSE BufSize IN
    IF bytesRead > 0
    THEN CopyLoop(SubSeq(input, bytesRead + 1, Len(input)),
                  Append(output, SubSeq(input, 1, bytesRead)))
    ELSE output

\* the bytes the sink holds after the writes made
RECURSIVE Sink(_)
Sink(output) ==
    IF output = <<>> THEN <<>> ELSE Head(output) \o Sink(Tail(output))

\* what may happen to one write request: nothing; the platform cancels its
\* signal while it runs; opening the source throws; openInputStream returns
\* null; a read or a write of the loop throws; closing a stream throws
PdfWriteEvents == {"none", "cancel", "open", "copy", "close"}
UriWriteEvents == PdfWriteEvents \cup {"null"}

\* the try-with-resources statement of onWrite up to its catch clause: the
\* callbacks made, the writes made to the sink, the exception leaving it.
\* cancellationSignal is not read.
TryWrite(input, ev) ==
    IF input = NoStream \/ ev = "open"
    THEN [callbacks |-> <<>>, output |-> <<>>, exception |-> "open failed"]
    ELSE IF ev = "null"
    THEN [callbacks |-> <<"onWriteFailed">>, output |-> <<>>, exception |-> "none"]
    ELSE IF ev = "copy"
    THEN [callbacks |-> <<>>, output |-> <<>>, exception |-> "IOException"]
    ELSE [callbacks |-> <<"onWriteFinished">>,
          output |-> CopyLoop(input, <<>>),
          exception |-> IF ev = "close" THEN "close failed" ELSE "none"]

\* onWrite without its catch clause: the exception leaves the method
CatchException_Rethrow(r) == r

\* catch (Exception e) { callback.onWriteFailed(e.getMessage()); }
CatchException(r) ==
    IF r.exception = "none" THEN r
    ELSE [r EXCEPT !.callbacks = Append(@, "onWriteFailed"), !.exception = "none"]

\* onWrite of both adapters
onWrite(input, ev) == CatchException(TryWrite(input, ev))

\* the record of one write request: the source asked for and whether it was
\* there, the callbacks made, the sizes of the writes to the sink, the bytes
\* the sink holds, the exception that left onWrite
WriteRecord(j, ev, source, input, r) ==
    [job |-> j, ev |-> ev, source |-> source, found |-> input # NoStream,
     callbacks |-> r.callbacks,
     chunks |-> [k \in 1..Len(r.output) |-> Len(r.output[k])],
     sink |-> Sink(r.output), exception |-> r.exception]

WritesOf(j) == Cardinality({i \in 1..Len(writes) : writes[i].job = j})

\* a write request of the job was answered with onWriteFailed: the print
\* subsystem fails the job and asks its adapter for nothing more
WriteFailed(j) ==
    \E i \in 1..Len(writes) :
        /\ writes[i].job = j
        /\ \E k \in 1..Len(writes[i].callbacks) :
            writes[i].callbacks[k] = "onWriteFailed"

\* what may happen to a write request given what opening its source gives:
\* with no source the open throws before anything else can happen
EventsFor(input, events) == IF input = NoStream THEN {"none"} ELSE events

\* a stream opened once and kept from one write request to the next: after
\* the first request it stands at its end
OpenSource_KeptOpen(bytes, earlier) == IF earlier = 0 THEN bytes ELSE <<>>

\* the stream a write request reads: onWrite opens the source itself, so each
\* request reads from the first byte, however many requests came earlier
OpenSource(bytes, earlier) == bytes

\* the file PdfDocumentAdapter.onWrite opens:
\* context.openFileInput(file.getName()), a file of context.getFilesDir()
PdfAdapterSource(file) == Path(FilesDir, FileName(file))

\* PdfDocumentAdapter.onWrite
PdfOnWrite(j) ==
    /\ j \in 1..Len(jobs) /\ jobs[j].kind = "Pdf"
    /\ LaidOut(j) /\ ~WriteFailed(j)
    /\ WritesOf(j) < MaxWrites
    /\ LET source == PdfAdapterSource(jobs[j].src)
           input == IF source \in DOMAIN fs
                    THEN OpenSource(fs[source], WritesOf(j))
                    ELSE NoStream
       IN  \E ev \in EventsFor(input, PdfWriteEvents) :
            writes' = Append(writes, WriteRecord(j, ev, source, input, onWrite(input, ev)))
    /\ UNCHANGED <<envVars, fs, req, outcome, branch, mime, jobs, ui, temps, wv,
                   layouts, web>>

\* UriDocumentAdapter.onWrite
UriOnWrite(j) ==
    /\ j \in 1..Len(jobs) /\ jobs[j].kind = "Uri"
    /\ LaidOut(j) /\ ~WriteFailed(j)
    /\ WritesOf(j) < MaxWrites
    /\ LET uri == [scheme |-> "content", path |-> jobs[j].src]
           input == IF ContentExists(uri)
                    THEN OpenSource(ContentDoc(uri).data, WritesOf(j))
                    ELSE NoStream
       IN  \E ev \in EventsFor(input, UriWriteEvents) :
            writes' = Append(writes, WriteRecord(j, ev, uri.path, input, onWrite(input, ev)))
    /\ UNCHANGED <<envVars, fs, req, outcome, branch, mime, jobs, ui, temps, wv,
                   layouts, web>>

\* the file an adapter will open is removed after the job was registered
ASourceRemoved(j) ==
    /\ j \in 1..Len(jobs) /\ jobs[j].kind = "Pdf"
    /\ WritesOf(j) < MaxWrites /\ ~WriteFailed(j)
    /\ LET source == PdfAdapterSource(jobs[j].src) IN
        /\ source \in DOMAIN fs
        /\ fs' = [p \in DOMAIN fs \ {source} |-> fs[p]]
    /\ UNCHANGED <<envVars, req, outcome, branch, mime, jobs, ui, temps, wv,
                   layouts, writes, web>>

(***************************************************************************)
(* iOS: Printer.swift.                                                     *)
(***************************************************************************)
\* Data(base64Encoded:) with no options: nil unless every character is of
\* the alphabet or padding and the text is a whole number of quads
IosBase64Decode(data) ==
    IF /\ \A i \in 1..Len(data) : B64Value(data[i]) # -1
       /\ Len(data) % 4 = 0
    THEN Base64Decode(data)
    ELSE BadBase64

\* Printer.presentPrintController
presentPrintController(br) ==
    IF ~iosAvail THEN Throw("printingNotAvailable", br)
    ELSE IF ~iosVC THEN Throw("printingNotAvailable", br)
    ELSE Effect(NoThrow, br, <<>>, <<"UIPrintInteractionController.present">>, {})

\* the image types the switch of Printer.printBase64 lists
IosImageMimes == {M_jpeg, M_jpg, M_png, M_gif, M_heic, M_heif}

\* Printer.printBase64 (Swift); img is what UIImage(data:) makes of the bytes
iosPrintBase64(data, mimeType, name, img) ==
    LET decodedData == IosBase64Decode(data)
        m == ToLowerCase(mimeType)
    IN  IF decodedData = BadBase64 THEN Throw("invalidBase64Data", "none")
        ELSE IF m = M_pdf THEN WithMime(presentPrintController("Document"), m)
        ELSE IF m \in IosImageMimes THEN
            IF img # "bitmap" THEN WithMime(Throw("invalidData", "Image"), m)
            ELSE WithMime(presentPrintController("Image"), m)
        ELSE WithMime(Throw("unsupportedMimeType", "none"), m)

\* FileManager.default.fileExists(atPath:) of the URL made from the path
iosFileExists(uri) == uri.scheme # "content" /\ uri.path \in DOMAIN fs

\* Printer.printFile and Printer.printPdf (Swift): the same body
iosPrintFile(uri, name) ==
    IF ~iosFileExists(uri) THEN Throw("fileNotFound", "none")
    ELSE presentPrintController("Document")

\* Printer.printHtml (Swift)
iosPrintHtml(name) == presentPrintController("Markup")

\* Printer.printWebView (Swift)
iosPrintWebView(name) == presentPrintController("LiveSurface")

IPrintBase64 ==
    /\ platform = "ios" /\ req = NoReq
    /\ \E data \in Payloads, mimeType \in Mimes, name \in JobNames,
          img \in {"bitmap", "null"} :
        Handled([op |-> "printBase64", data |-> data, mimeType |-> mimeType,
                 name |-> name],
                iosPrintBase64(data, mimeType, name, img))
    /\ UNCHANGED <<envVars, wv, layouts, writes, web>>

IPrintFile ==
    /\ platform = "ios" /\ req = NoReq
    /\ \E uri \in Uris, name \in JobNames :
        Handled([op |-> "printFile", uri |-> uri, mimeType |-> Null, name |-> name],
                iosPrintFile(uri, name))
    /\ UNCHANGED <<envVars, wv, layouts, writes, web>>

IPrintPdf ==
    /\ platform = "ios" /\ req = NoReq
    /\ \E uri \in Uris, name \in JobNames :
        Handled([op |-> "printPdf", uri |-> uri, name |-> name],
                iosPrintFile(uri, name))
    /\ UNCHANGED <<envVars, wv, layouts, writes, web>>

IPrintHtml ==
    /\ platform = "ios" /\ req = NoReq
    /\ \E name \in JobNames :
        Handled([op |-> "printHtml", name |-> name], iosPrintHtml(name))
    /\ UNCHANGED <<envVars, wv, layouts, writes, web>>

IPrintWebView ==
    /\ platform = "ios" /\ req = NoReq
    /\ \E name \in JobNames :
        Handled([op |-> "printWebView", hasWebView |-> TRUE, name |-> name],
                iosPrintWebView(name))
    /\ UNCHANGED <<envVars, wv, layouts, writes, web>>

(***************************************************************************)
(* Web: PrinterWeb.                                                        *)
(***************************************************************************)
\* the object URL URL.createObjectURL returns for the request's blob
BlobUrl == <<"blob:", "1">>

\* the operations that make an object URL and revoke it after printFromUrl
MakesBlobUrl(op) == op \in {"printBase64", "printHtml"}

\* PrinterWeb.printFromUrl up to its return: the hidden iframe is appended to
\* document.body and its src set; the promise is pending
printFromUrl(w) == [w EXCEPT !.iframe = "attached", !.promise = "pending"]

\* PrinterWeb.printBase64 / printHtml up to the await: the blob's object URL
\* is created and handed to printFromUrl
WStartBlob(request) ==
    /\ platform = "web" /\ req = NoReq
    /\ req' = request
    /\ web' = printFromUrl([web EXCEPT !.urls = @ \cup {BlobUrl}])
    /\ temps' = temps \cup {BlobUrl}
    /\ outcome' = Pending
    /\ branch' = "Iframe"
    /\ mime' = Null
    /\ UNCHANGED <<envVars, fs, jobs, ui, wv, layouts, writes>>

\* PrinterWeb.printFile / printPdf up to the await
WStartUrl(request) ==
    /\ platform = "web" /\ req = NoReq
    /\ req' = request
    /\ web' = printFromUrl(web)
    /\ outcome' = Pending
    /\ branch' = "Iframe"
    /\ mime' = Null
    /\ UNCHANGED <<envVars, fs, jobs, ui, temps, wv, layouts, writes>>

\* ASCII whitespace, which atob removes before it decodes
IsAsciiWhitespace(c) == c = " "

\* window.atob(data), the forgiving-base64 decode: whitespace is removed; of
\* a text that is a whole number of quads one or two trailing '=' are
\* removed; what is left must not be one character more than whole quads and
\* must hold characters of the alphabet only
atob(data) ==
    LET s == SelectSeq(data, LAMBDA c : ~IsAsciiWhitespace(c))
        n == Len(s)
        t == IF n % 4 = 0 /\ n > 0 /\ s[n] = B64Pad
             THEN IF s[n - 1] = B64Pad THEN SubSeq(s, 1, n - 2)
                  ELSE SubSeq(s, 1, n - 1)
             ELSE s
    IN  IF Len(t) % 4 = 1 THEN BadBase64
        ELSE IF \E i \in 1..Len(t) : B64Value(t[i]) < 0 THEN BadBase64
        ELSE Base64Decode(t)

\* PrinterWeb.printBase64: atob throws before anything is created and the
\* async function's promise rejects; else the blob is printed from its URL
WPrintBase64 ==
    /\ platform = "web" /\ req = NoReq
    /\ \E data \in Payloads, mimeType \in Mimes, name \in JobNames :
       LET request == [op |-> "printBase64", data |-> data,
                       mimeType |-> mimeType, name |-> name]
       IN  IF atob(data) = BadBase64
           THEN /\ req' = request
                /\ outcome' = Failure("InvalidCharacterError")
                /\ branch' = "none"
                /\ mime' = Null
                /\ UNCHANGED <<envVars, fs, jobs, ui, temps, wv, layouts, writes, web>>
           ELSE WStartBlob(request)

WPrintHtml ==
    /\ platform = "web" /\ req = NoReq
    /\ \E name \in JobNames : WStartBlob([op |-> "printHtml", name |-> name])

WPrintFile ==
    /\ platform = "web" /\ req = NoReq
    /\ \E uri \in Uris, name \in JobNames :
        WStartUrl([op |-> "printFile", uri |-> uri, mimeType |-> Null, name |-> name])

WPrintPdf ==
    /\ platform = "web" /\ req = NoReq
    /\ \E uri \in Uris, name \in JobNames :
        WStartUrl([op |-> "printPdf", uri |-> uri, name |-> name])

\* document.title when printWebView has run: the title is saved, replaced by
\* the name when one is given, window.print() is called, and the assignment
\* that puts the saved title back follows the call, so it runs only when the
\* call returns
printWebView_Title(title, name, printThrows) ==
    LET originalTitle == title
        shown == IF name # NoName THEN name ELSE title
    IN  IF printThrows THEN shown ELSE originalTitle

\* PrinterWeb.printWebView: window.print() and the promise settles
WPrintWebView ==
    /\ platform = "web" /\ req = NoReq
    /\ \E name \in JobNames \cup {NoName}, printThrows \in BOOLEAN :
        /\ Handled([op |-> "printWebView", hasWebView |-> TRUE, name |-> name],
                   IF printThrows THEN Throw("window.print failed", "LiveSurface")
                   ELSE Effect(NoThrow, "LiveSurface", <<>>, <<"window.print">>, {}))
        /\ web' = [web EXCEPT !.title = printWebView_Title(@, name, printThrows)]
    /\ UNCHANGED <<envVars, wv, layouts, writes>>

\* the rest of printBase64 / printHtml / printFile / printPdf after the await,
\* run when the promise of printFromUrl settles: on resolve the object URL is
\* revoked and the caller's promise resolves; on reject the rejection passes
\* straight to the caller
AfterAwait(w, settled, reason) ==
    IF w.promise # "pending" THEN
        /\ web' = w
        /\ UNCHANGED outcome
    ELSE IF settled = "resolved" THEN
        /\ web' = [w EXCEPT !.promise = "resolved",
                            !.urls = IF MakesBlobUrl(req.op) THEN @ \ {BlobUrl} ELSE @]
        /\ outcome' = Success
    ELSE
        /\ web' = [w EXCEPT !.promise = "rejected"]
        /\ outcome' = Failure(reason)

\* iframe.onload: a timer of 100 ms is set
WIframeLoad ==
    /\ web.iframe = "attached" /\ web.loads < MaxLoads
    /\ web' = [web EXCEPT !.loads = @ + 1, !.t1 = @ + 1]
    /\ UNCHANGED <<envVars, fs, req, outcome, branch, mime, jobs, ui, temps, wv, layouts, writes>>

\* iframe.onerror: the iframe is removed and the promise rejected
WIframeError ==
    /\ web.iframe = "attached"
    /\ AfterAwait([web EXCEPT !.iframe = "removed", !.errored = TRUE], "rejected",
                  "Failed to load content for printing")
    /\ UNCHANGED <<envVars, fs, req, branch, mime, jobs, ui, temps, wv, layouts, writes>>

\* the first timer: print the iframe's window and set the second timer; on an
\* exception remove the iframe and reject. contentWindow is null once the
\* iframe is detached, and removeChild throws for a node that is no child.
WTimer1 ==
    /\ web.t1 > 0
    /\ \E printThrows \in BOOLEAN :
        LET w == [web EXCEPT !.t1 = @ - 1] IN
        IF w.iframe # "attached" THEN
            /\ web' = [w EXCEPT !.uncaught = @ + 1]
            /\ UNCHANGED <<outcome, ui>>
        ELSE IF printThrows THEN
            /\ AfterAwait([w EXCEPT !.iframe = "removed"], "rejected", "print failed")
            /\ UNCHANGED ui
        ELSE
            /\ web' = [w EXCEPT !.t2 = @ + 1]
            /\ ui' = Append(ui, "iframe.print")
            /\ UNCHANGED outcome
    /\ UNCHANGED <<envVars, fs, req, branch, mime, jobs, temps, wv, layouts, writes>>

\* the second timer: remove the iframe and resolve
WTimer2 ==
    /\ web.t2 > 0
    /\ LET w == [web EXCEPT !.t2 = @ - 1] IN
        IF w.iframe # "attached" THEN
            /\ web' = [w EXCEPT !.uncaught = @ + 1]
            /\ UNCHANGED outcome
        ELSE AfterAwait([w EXCEPT !.iframe = "removed"], "resolved", "none")
    /\ UNCHANGED <<envVars, fs, req, branch, mime, jobs, ui, temps, wv, layouts, writes>>

(***************************************************************************)
(* The specification.                                                      *)
(***************************************************************************)
Next ==
    \/ APrintBase64
    \/ APrintFile
    \/ APrintPdf
    \/ APrintWebView
    \/ APrintHtml
    \/ AOnReceivedError
    \/ AOnPageFinished
    \/ \E j \in 1..Len(jobs) : PdfOnLayout(j)
    \/ \E j \in 1..Len(jobs) : UriOnLayout(j)
    \/ \E j \in 1..Len(jobs) : PdfOnWrite(j)
    \/ \E j \in 1..Len(jobs) : UriOnWrite(j)
    \/ \E j \in 1..Len(jobs) : ASourceRemoved(j)
    \/ IPrintBase64
    \/ IPrintFile
    \/ IPrintPdf
    \/ IPrintHtml
    \/ IPrintWebView
    \/ WPrintBase64
    \/ WPrintHtml
    \/ WPrintFile
    \/ WPrintPdf
    \/ WPrintWebView
    \/ WIframeLoad
    \/ WIframeError
    \/ WTimer1
    \/ WTimer2

Spec == Init /\ [][Next]_vars

(***************************************************************************)
(* The claims.                                                             *)
(***************************************************************************)
\* the caller's promise has settled
Finished == outcome.status \in {"Success", "Failure"}

\* the byte sequence a payload encodes
Encodes(b, data) == b \in ByteSeqs /\ Base64Encode(b) = data

\* C1: round trip of printBase64 with application/pdf on Android: whenever
\* the print subsystem asks the adapter to write, the read succeeds, comes
\* from the temporary file the request wrote, and copies exactly the bytes B
\* whose base64 encoding the caller passed.
C1_RoundTrip ==
    (platform = "android" /\ req.op = "printBase64" /\ req.mimeType = M_pdf) =>
        \A i \in 1..Len(writes) :
            writes[i].ev = "none" =>
                /\ writes[i].callbacks = <<"onWriteFinished">>
                /\ writes[i].source \in temps
                /\ \A b \in ByteSeqs : Encodes(b, req.data) => writes[i].sink = b

\* C2: on Android, printFile and printPdf given a content:// URI that the
\* content resolver reports as nonexistent end in a failure, and no print
\* job is registered and no print UI presented.
C2_AbsentContentFails ==
    (/\ platform = "android"
     /\ req.op \in {"printFile", "printPdf"}
     /\ req.uri.scheme = "content"
     /\ ~ContentExists(req.uri)) =>
        /\ outcome.status = "Failure"
        /\ jobs = <<>>
        /\ ui = <<>>

\* C3: once a request has finished, with success or with failure, every
\* temporary artifact it created is gone: the Android temporary file no
\* longer exists and the web object URL has been revoked.
C3_NoOrphans ==
    Finished => \A t \in temps : t \notin DOMAIN fs /\ t \notin web.urls

\* C4: where the platform offers a print service, the caller's promise
\* settles as Success only after the request has been dispatched: a print UI
\* has been presented (the job registered, the browser's print dialog
\* triggered) by then.
C4_SuccessAfterDispatch == (printManager /\ outcome = Success) => Len(ui) > 0

\* the request took a branch that needs the platform's print service
NeedsPrintService == branch \in {"Document", "Markup", "LiveSurface"}

\* C5: with no print service in the current context (Android: a null
\* PrintManager; iOS: printing unavailable or no presenting view controller)
\* a document, markup or live-surface request ends in the
\* service-unavailable failure, with no job registered and no UI shown.
C5_NoServiceFails ==
    /\ (platform = "android" /\ ~printManager /\ NeedsPrintService) =>
            /\ outcome = Failure("Print service not available")
            /\ jobs = <<>> /\ ui = <<>>
    /\ (platform = "ios" /\ ~(iosAvail /\ iosVC) /\ NeedsPrintService) =>
            /\ outcome = Failure("printingNotAvailable")
            /\ ui = <<>>

\* C6: a markup string whose rendering fails yields a failed outcome, and the
\* registry call (PrintManager.print on Android, the iframe's print() on web)
\* is not made for that request.
C6_RenderFailureRejects ==
    /\ (platform = "android" /\ req.op = "printHtml" /\ wv.failed) =>
            /\ outcome.status = "Failure"
            /\ jobs = <<>>
    /\ (platform = "web" /\ req.op = "printHtml" /\ web.errored /\ web.loads = 0) =>
            /\ outcome = Failure("Failed to load content for printing")
            /\ ui = <<>>

\* the document adapters' jobs in the registry
DocumentJobs == {j \in 1..Len(jobs) : jobs[j].kind \in {"Pdf", "Uri"}}

ExtensionOf(path) ==
    IF \E i \in 1..Len(path) : path[i] = "."
    THEN SubSeq(path,
                1 + CHOOSE i \in 1..Len(path) :
                        path[i] = "." /\ \A j \in (i + 1)..Len(path) : path[j] # ".",
                Len(path))
    ELSE <<>>

SameIgnoringCase(a, b) ==
    /\ Len(a) = Len(b)
    /\ \A i \in 1..Len(a) : LowerChar(a[i]) = LowerChar(b[i])

\* the extension-to-MIME table of the specification
TableMime(path) ==
    LET x == ExtensionOf(path) IN
    IF SameIgnoringCase(x, W_pdf) THEN M_pdf
    ELSE IF SameIgnoringCase(x, W_jpg) \/ SameIgnoringCase(x, W_jpeg) THEN M_jpeg
    ELSE IF SameIgnoringCase(x, W_png) THEN M_png
    ELSE IF SameIgnoringCase(x, W_gif) THEN M_gif
    ELSE M_octet

\* the resolution order of the specification: the declared type, else the
\* content resolver's type for a content:// URI, else the table, else
\* application/octet-stream
SpecMime(uri, declared) ==
    IF declared # Null THEN declared
    ELSE IF uri.scheme = "content" /\ ContentExists(uri) /\ ContentType(uri) # Null
    THEN ContentType(uri)
    ELSE TableMime(uri.path)

\* C8: the effective MIME type of an Android printFile request whose source
\* was found is the declared type, else the content resolver's type, else
\* the table's type, else application/octet-stream; it is never empty.
C8_ResolutionOrder ==
    (/\ platform = "android"
     /\ req.op = "printFile"
     /\ outcome # Failure("File not found")) =>
        /\ mime = SpecMime(req.uri, req.mimeType)
        /\ mime # Null

NotImageType(m) == m = Null \/ ~StartsWith(ToLowerCase(m), ImagePrefix)

\* the MIME type of the request as the specification resolves it
ClaimMime ==
    IF req.op = "printBase64" THEN req.mimeType
    ELSE IF req.op = "printFile" THEN SpecMime(req.uri, req.mimeType)
    ELSE Null

\* the request is of a kind other than Html and LiveView and its source was
\* resolved: the payload is valid base64, the path or URI exists
ResolvedDocumentKind ==
    /\ Finished
    /\ req.op \in {"printBase64", "printFile", "printPdf"}
    /\ req.op = "printBase64" => \E b \in ByteSeqs : Encodes(b, req.data)
    /\ req.op # "printBase64" =>
        CASE platform = "android" ->
                IF req.uri.scheme = "content" THEN ContentExists(req.uri)
                ELSE req.uri.path \in DOMAIN InitFS
          [] platform = "ios" -> iosFileExists(req.uri)
          [] OTHER -> outcome = Success

\* the request went to the platform's generic document printer: the
\* document adapter's registration on Android, the print controller with
\* the data or file as its item on iOS, the hidden iframe on web
HandedToDocumentPrinter ==
    CASE platform = "android" ->
            /\ branch = "Document"
            /\ \/ outcome = Success /\ DocumentJobs # {}
               \/ outcome = Failure("Print service not available")
      [] platform = "ios" ->
            /\ branch = "Document"
            /\ \/ outcome = Success /\ ui # <<>>
               \/ outcome = Failure("printingNotAvailable")
      [] OTHER -> branch = "Iframe"

IosUnsupported ==
    /\ platform = "ios"
    /\ req.op = "printBase64"
    /\ ToLowerCase(req.mimeType) # M_pdf

IsBase64(data) ==
    /\ Len(data) % 4 = 0
    /\ \A i \in 1..Len(data) :
        \/ B64Value(data[i]) >= 0
        \/ /\ data[i] = B64Pad
           /\ i >= Len(data) - 1
           /\ i > 2
           /\ \A k \in i..Len(data) : data[k] = B64Pad

\* C11: printBase64 with a payload that is not valid base64 ends in a
\* failure on every platform, and no temporary file or object URL has been
\* created, no job registered and no print UI invoked.
C11_MalformedPayloadFails ==
    (req.op = "printBase64" /\ ~IsBase64(req.data)) =>
        /\ outcome.status = "Failure"
        /\ temps = {}
        /\ jobs = <<>>
        /\ ui = <<>>

\* a printFile or printPdf request of Android or iOS for a direct filesystem
\* path, with or without the file:// prefix
DirectPathRequest ==
    /\ platform \in {"android", "ios"}
    /\ req.op \in {"printFile", "printPdf"}
    /\ req.uri.scheme # "content"

\* the not-found failure of the platform
NotFound ==
    IF platform = "android" THEN Failure("File not found")
    ELSE Failure("fileNotFound")

IsPdf(bytes) == StartsWith(bytes, PdfHeader)

\* C13: printPdf given a path to an existing readable file that is not a PDF
\* (its first bytes are not the PDF header) fails, and presents no print UI.
C13_NonPdfRejected ==
    (/\ req.op = "printPdf"
     /\ req.uri.scheme # "content"
     /\ req.uri.path \in DOMAIN InitFS
     /\ ~IsPdf(InitFS[req.uri.path])
     /\ Finished) =>
        /\ outcome.status = "Failure"
        /\ ui = <<>>

\* C14: the adapter registered for a direct-path document request reads, on
\* every write request, the very file that was resolved and checked at
\* dispatch: same directory, same name.
C14_AdapterBoundToSource ==
    (platform = "android" /\ req.op \in {"printFile", "printPdf"}) =>
        \A i \in 1..Len(writes) :
            jobs[writes[i].job].kind = "Pdf" =>
                writes[i].source = jobs[writes[i].job].src

\* the callbacks onWrite made for the i-th write request
Callbacks(i) == {writes[i].callbacks[k] : k \in 1..Len(writes[i].callbacks)}

\* the bytes of the source the i-th write request opened: a file of the
\* files directory, which no request changes, or a document of the resolver
OpenedBytes(i) ==
    IF jobs[writes[i].job].kind = "Pdf" THEN InitFS[writes[i].source]
    ELSE ContentDoc([scheme |-> "content", path |-> writes[i].source]).data

IoError(i) == ~writes[i].found \/ writes[i].ev \in {"open", "null", "copy", "close"}

\* C16: every I/O error of a write request is reported with onWriteFailed
\* and no exception leaves onWrite; and a write request never changes the
\* outcome the caller's promise already has.
C16_ErrorsByCallback ==
    /\ [](\A i \in 1..Len(writes) :
            IoError(i) =>
                /\ "onWriteFailed" \in Callbacks(i)
                /\ writes[i].exception = "none")
    /\ [][writes' # writes => outcome' = outcome]_vars

\* C16's case: the file the adapter opens was there at dispatch and gone at
\* the write request, which failed by callback; the promise stays resolved
C16_Witness ==
    /\ req.op = "printPdf"
    /\ req.uri.path = Path(FilesDir, <<"g", ".", "p", "d", "f">>)
    /\ outcome = Success
    /\ Len(writes) = 1
    /\ writes[1].ev = "none" /\ ~writes[1].found
    /\ writes[1].callbacks = <<"onWriteFailed">>
    /\ writes[1].exception = "none"

\* C17: a layout request whose signal is cancelled is answered with
\* onLayoutCancelled and no metadata; and a write request whose signal the
\* platform cancels copies nothing and does not report onWriteFinished.
C17_CancelStopsAdapter ==
    /\ \A i \in 1..Len(layouts) :
        layouts[i].cancelled =>
            layouts[i].result = "onLayoutCancelled" /\ layouts[i].info = Null
    /\ \A i \in 1..Len(writes) :
        writes[i].ev = "cancel" =>
            writes[i].sink = <<>> /\ "onWriteFinished" \notin Callbacks(i)

\* the rendering surface of a markup request has signalled that rendering
\* completed: onPageFinished of the WebView, the load event of the iframe.
\* The iOS implementation has no rendering surface and receives no signal.
RenderComplete ==
    CASE platform = "android" -> wv.finished > 0
      [] platform = "web" -> web.loads > 0
      [] OTHER -> FALSE

\* the registry call of a markup request was made: a job registered, a print
\* UI presented, the iframe's print() called
RegistryCalled == jobs # <<>> \/ ui # <<>>

C19_OneTerminalCallback ==
    \A i \in 1..Len(writes) : Len(writes[i].callbacks) = 1

\* how many times the iframe's print() was called
PrintCalls == Cardinality({i \in 1..Len(ui) : ui[i] = "iframe.print"})

\* the promise of printFromUrl has settled
Settled == web.promise \in {"resolved", "rejected"}

\* C20: in the web printFromUrl, however the load event, the error event and
\* the two timers interleave, the print dialog is triggered at most once, a
\* settled promise stays as it settled, and once the promise has settled the
\* iframe has been removed from document.body.
C20_OnePrintOneSettle ==
    platform = "web" =>
        /\ PrintCalls <= 1
        /\ Settled => web.iframe = "removed"
        /\ Settled => outcome.status = (IF web.promise = "resolved" THEN "Success" ELSE "Failure")

\* C21: one Android printHtml request registers at most one print job,
\* however many times the WebView delivers onPageFinished for the load.
C21_OneJobPerMarkupRequest ==
    (platform = "android" /\ req.op = "printHtml") =>
        /\ Len(jobs) <= 1
        /\ Len(ui) <= 1

\* the i-th write request met no I/O error and found its source
PlainWrite(i) == writes[i].found /\ writes[i].ev \in {"none", "cancel"}

\* C22: the adapters keep no state between callbacks. Two layout requests of
\* one job with the same signal get the same answer; and of two write
\* requests of one job that meet no I/O error and find the source, the later
\* opens the same source and gives the same sink content, in the same chunks,
\* and the same callback as the earlier.
C22_AdaptersStateless ==
    /\ \A i, k \in 1..Len(layouts) :
        (layouts[i].job = layouts[k].job /\ layouts[i].cancelled = layouts[k].cancelled) =>
            /\ layouts[i].result = layouts[k].result
            /\ layouts[i].info = layouts[k].info
    /\ \A i, k \in 1..Len(writes) :
        (writes[i].job = writes[k].job /\ PlainWrite(i) /\ PlainWrite(k)) =>
            /\ writes[i].source = writes[k].source
            /\ writes[i].sink = writes[k].sink
            /\ writes[i].chunks = writes[k].chunks
            /\ writes[i].callbacks = writes[k].callbacks

\* C22's case: the print subsystem asked twice for the content of one job,
\* and twice the adapter copied the whole of a source of 1025 bytes
C22_Witness ==
    /\ Len(writes) = 2
    /\ writes[1].job = writes[2].job
    /\ PlainWrite(1) /\ PlainWrite(2)
    /\ writes[1].sink = LongPdf
    /\ writes[2].sink = LongPdf
    /\ writes[2].callbacks = <<"onWriteFinished">>

\* C23: on the web, when printWebView has finished, document.title equals the
\* title the page had before the call, with or without a job name and whether
\* window.print() returned or threw
C23_TitleRestored ==
    (platform = "web" /\ req # NoReq /\ req.op = "printWebView" /\ Finished) =>
        web.title = PageTitle

====
